---- MODULE Spec2Model ----
(***************************************************************************)
(* Momo's Guide to Monsters: the knowledge check (tier unlock decision,    *)
(* knowledge gathering, information extraction) and the bestiary journal.  *)
(*                                                                         *)
(* Conventions.  A JavaScript value that may be undefined/null is a        *)
(* sequence of length at most one: <<>> is undefined, <<v>> is v.  A       *)
(* JavaScript string that the code builds is a sequence of tokens (Text):  *)
(* the empty sequence is the empty string "".  A JavaScript object whose   *)
(* key order matters (Object.entries) is a sequence of its entries.        *)
(***************************************************************************)
EXTENDS Integers, Sequences, FiniteSets, TLC

VARIABLES user, menu, actors, dcSetting, infoSetting, dialog, chat, journals, commits, notice

vars == <<user, menu, actors, dcSetting, infoSetting, dialog, chat, journals, commits, notice>>

(***************************************************************************)
(* Bounds of the model.                                                    *)
(***************************************************************************)
\* DC settings explored: DCMin..MaxDC (the settings allow DCMin..DCMax).
MaxDC == 5
\* Difficulty modifiers explored: -MaxDC..MaxMod.
MaxMod == 1
\* Roll totals explored: -MaxMod..MaxDC+MaxMod.
\* Chat messages kept in the log.
MaxMessages == 2
\* Damage types listed in one trait.
MaxTraitLen == 1
\* Abilities in a monster's ability map.
MaxAbilities == 3
\* Ability scores explored: 1..MaxScore.
MaxScore == 2

\* settings: range {min: 1, max: 40}
DCMin == 1
DCMax == 40

Tiers == {"tier1", "tier2", "tier3", "tier4", "tier5"}

\* const tierOrder = ["tier1", "tier2", "tier3", "tier4", "tier5"]
tierOrder == <<"tier1", "tier2", "tier3", "tier4", "tier5">>

\* tierLabels[t].level
TierLevel(t) ==
  CASE t = "tier1" -> 1 [] t = "tier2" -> 2 [] t = "tier3" -> 3
    [] t = "tier4" -> 4 [] t = "tier5" -> 5

(***************************************************************************)
(* Text: strings built by the code, as token sequences.                    *)
(***************************************************************************)
W(w) == [w |-> w, n |-> 0]
N(n) == [w |-> "#", n |-> n]
Str(w)  == <<W(w)>>
Num(n)  == <<N(n)>>
EmptyStr == <<>>
Dash == Str("-")

\* JavaScript truthiness of a string
TruthyStr(s) == s # EmptyStr

RECURSIVE Join(_, _)
\* parts.join(sep)
Join(parts, sep) ==
  IF parts = <<>> THEN EmptyStr
  ELSE IF Len(parts) = 1 THEN parts[1]
  ELSE parts[1] \o sep \o Join(Tail(parts), sep)

(***************************************************************************)
(* Settings (world scope).                                                 *)
(***************************************************************************)
DEFAULT_DCS == [tier1 |-> 12, tier2 |-> 15, tier3 |-> 18, tier4 |-> 22, tier5 |-> 25]

\* a stored info setting is a comma separated string: the sequence of its
\* segments; the empty string is the single empty segment
EmptySetting == <<"">>

\* list.join(",")
JoinComma(list) == IF list = <<>> THEN EmptySetting ELSE list

DEFAULT_TIER_INFO ==
  [tier1 |-> JoinComma(<<"resistances">>),
   tier2 |-> JoinComma(<<"conditionImmunities">>),
   tier3 |-> JoinComma(<<"highestStat">>),
   tier4 |-> JoinComma(<<"lowestStat">>),
   tier5 |-> JoinComma(<<>>)]

\* s.trim()
Trim(s) == IF s \in {"", " "} THEN "" ELSE s

NonBlank(s) == Trim(s) # ""

\* getTierInfo(tier): setting ? setting.split(",").filter(s => s.trim()) : []
getTierInfo(tier) ==
  LET setting == infoSetting[tier]
  IN  IF setting = EmptySetting THEN <<>> ELSE SelectSeq(setting, NonBlank)

\* getAllTierConfig()
getAllTierConfig ==
  [t \in Tiers |-> [dc |-> dcSetting[t], info |-> getTierInfo(t)]]

\* Object.keys(INFO_TYPES)
INFO_TYPES ==
  <<"resistances", "conditionImmunities", "highestStat", "lowestStat", "ac", "hp",
    "speed", "senses", "languages", "cr", "creatureType", "allStats", "allSaves",
    "legendaryActions", "legendaryResistances">>

\* the tier configuration menu (TierConfigMenu): not saving, or saving the
\* form data from tier number i on
IdleMenu == [pc |-> "idle", data |-> <<>>, i |-> 0]

\* the checked info types of tier in the form data, in the order of INFO_TYPES
CheckedInfo(data, tier) ==
  LET Checked(infoKey) == infoKey \in data[tier] IN SelectSeq(INFO_TYPES, Checked)

\* TierConfigMenu._onSubmitForm up to its first await: the menu is
\* restricted to GMs
TierConfigSubmit(data) ==
  /\ menu.pc = "idle"
  /\ user.isGM
  /\ menu' = [pc |-> "saving", data |-> <<data>>, i |-> 1]
  /\ UNCHANGED <<user, actors, dcSetting, infoSetting, dialog, chat, journals,
                 commits, notice>>

\* await setSetting(settingKey, checkedInfo.join(",")) of tier number i
\* resolves; after the last tier the menu notifies and is done
SettingSaved ==
  /\ menu.pc = "saving"
  /\ infoSetting' = [infoSetting EXCEPT
                       ![tierOrder[menu.i]] =
                          JoinComma(CheckedInfo(menu.data[1], tierOrder[menu.i]))]
  /\ IF menu.i = Len(tierOrder)
     THEN /\ menu' = IdleMenu
          /\ notice' = <<[level |-> "info", key |-> "MKC.Settings.Saved", name |-> ""]>>
     ELSE /\ menu' = [menu EXCEPT !.i = menu.i + 1]
          /\ notice' = notice
  /\ UNCHANGED <<user, actors, dcSetting, dialog, chat, journals, commits>>

\* a GM changes the DC setting of tier in the settings form (config: true)
SetDC(tier, dc) ==
  /\ user.isGM
  /\ dcSetting' = [dcSetting EXCEPT ![tier] = dc]
  /\ UNCHANGED <<user, menu, actors, infoSetting, dialog, chat, journals, commits,
                 notice>>

(***************************************************************************)
(* Knowledge resolver.                                                     *)
(***************************************************************************)
\* tierConfig.tier5 && tierConfig.tier5.dc && tierConfig.tier5.info.length > 0
Tier5Configured(tierConfig) ==
  tierConfig["tier5"].dc # 0 /\ Len(tierConfig["tier5"].info) > 0

\* the dcs object of _performKnowledgeCheck: tier -> threshold, <<>> if absent
EffectiveDCs(tierConfig, dcModifier) ==
  [t \in Tiers |->
     IF t # "tier5" \/ Tier5Configured(tierConfig)
     THEN <<tierConfig[t].dc + dcModifier>>
     ELSE <<>>]

\* JavaScript truthiness of dcs[tier]: defined and not 0
TruthyNum(v) == v # <<>> /\ v[1] # 0

\* rollTotal >= dcs[tier], false when rollTotal is undefined
AtLeast(rollTotal, dc) == rollTotal # <<>> /\ rollTotal[1] >= dc[1]

RECURSIVE DetermineFrom(_, _, _)
DetermineFrom(i, rollTotal, dcs) ==
  IF i > Len(tierOrder) THEN <<>>
  ELSE LET tier == tierOrder[i]
           rest == DetermineFrom(i + 1, rollTotal, dcs)
       IN  IF TruthyNum(dcs[tier])
           THEN <<[tier |-> tier, unlocked |-> AtLeast(rollTotal, dcs[tier])]>> \o rest
           ELSE rest

\* _determineUnlockedTiers(rollTotal, dcs): the entries of the returned
\* object, in insertion order
_determineUnlockedTiers(rollTotal, dcs) == DetermineFrom(1, rollTotal, dcs)

(***************************************************************************)
(* Monster data (the fields of actor.system the extractor reads).          *)
(***************************************************************************)
\* CONFIG.DND5E.damageTypes[type]?.label || type
DamageTypeLabel(type) ==
  IF type = "fire" THEN "Fire" ELSE IF type = "cold" THEN "Cold" ELSE type

\* CONFIG.DND5E.conditionTypes[condition]?.label || condition
ConditionLabel(condition) ==
  IF condition = "charmed" THEN "Charmed" ELSE condition

\* CONFIG.DND5E.abilities[id]?.label || id
AbilityLabel(id) ==
  IF id = "str" THEN "Strength"
  ELSE IF id = "dex" THEN "Dexterity"
  ELSE IF id = "con" THEN "Constitution"
  ELSE id

RECURSIVE MapSeq(_, _)
MapSeq(Op(_), s) == IF s = <<>> THEN <<>> ELSE <<Op(Head(s))>> \o MapSeq(Op, Tail(s))

\* _formatDamageTraits(trait)
_formatDamageTraits(trait) ==
  IF trait = <<>> THEN <<>>
  ELSE LET values == MapSeq(DamageTypeLabel, trait[1].value)
       IN  IF trait[1].custom # "" THEN Append(values, trait[1].custom) ELSE values

\* _getConditionImmunities()
_getConditionImmunities(monster) ==
  LET ci == monster.ci
  IN  IF ci = <<>> THEN <<>>
      ELSE LET values == MapSeq(ConditionLabel, ci[1].value)
           IN  IF ci[1].custom # "" THEN Append(values, ci[1].custom) ELSE values

(***************************************************************************)
(* Information items.  A scalar item carries value (and formula); a list   *)
(* item carries items and emptyText.                                       *)
(***************************************************************************)
ScalarItem(label, value, formula) ==
  [label |-> label, isList |-> FALSE, items |-> <<>>, emptyText |-> "",
   value |-> value, formula |-> formula]

ListItem(label, items, emptyText) ==
  [label |-> label, isList |-> TRUE, items |-> items, emptyText |-> emptyText,
   value |-> EmptyStr, formula |-> EmptyStr]

\* what _getInfoByType returns: null, one item, or an array of items
RetNull == [kind |-> "null", items |-> <<>>]
RetItem(item) == [kind |-> "item", items |-> <<item>>]
RetArray(items) == [kind |-> "array", items |-> items]

\* one pushed entry of _getResistancesInfo
ResistancePart(label, values) ==
  IF Len(values) # 0 THEN <<ListItem(label, values, "")>> ELSE <<>>

\* variant of _getResistancesInfo without the placeholder for a monster
\* with no damage traits
_getResistancesInfoNoPlaceholder(monster) ==
  RetArray(ResistancePart("MKC.Chat.DamageVulnerabilities", _formatDamageTraits(monster.dv))
           \o ResistancePart("MKC.Chat.DamageResistances", _formatDamageTraits(monster.dr))
           \o ResistancePart("MKC.Chat.DamageImmunities", _formatDamageTraits(monster.di)))

\* _getResistancesInfo()
_getResistancesInfo(monster) ==
  LET vuln == _formatDamageTraits(monster.dv)
      res  == _formatDamageTraits(monster.dr)
      imm  == _formatDamageTraits(monster.di)
      infoItems == ResistancePart("MKC.Chat.DamageVulnerabilities", vuln)
                   \o ResistancePart("MKC.Chat.DamageResistances", res)
                   \o ResistancePart("MKC.Chat.DamageImmunities", imm)
  IN  IF Len(infoItems) = 0
      THEN RetItem(ScalarItem("MKC.Chat.DamageTraits",
                              Str("MKC.Chat.NoDamageTraits"), EmptyStr))
      ELSE RetArray(infoItems)

\* _getConditionImmunitiesInfo()
_getConditionImmunitiesInfo(monster) ==
  RetItem(ListItem("MKC.InfoType.ConditionImmunities",
                   _getConditionImmunities(monster),
                   "MKC.Chat.NoConditionImmunities"))

\* ability.save?.value ?? ability.save ?? 0
SaveOf(ability) == IF ability.save = <<>> THEN 0 ELSE ability.save[1]

StatOf(ability) ==
  [id |-> ability.id, value |-> ability.value, save |-> SaveOf(ability),
   label |-> AbilityLabel(ability.id)]

\* variant of Higher comparing with >= : the last of the tied abilities wins
HigherOrEqual(ability, highest) == highest = <<>> \/ ability.value >= highest[1].value

\* ability.value > highest.value, highest.value starting at -Infinity
Higher(ability, highest) == highest = <<>> \/ ability.value > highest[1].value

\* ability.value < lowest.value, lowest.value starting at Infinity
Lower(ability, lowest) == lowest = <<>> \/ ability.value < lowest[1].value

RECURSIVE ScanStat(_, _, _)
\* the loop of _getHighestStat / _getLowestStat over Object.entries(abilities)
ScanStat(Better(_, _), abilities, best) ==
  IF abilities = <<>> THEN best
  ELSE ScanStat(Better, Tail(abilities),
                IF Better(Head(abilities), best)
                THEN <<StatOf(Head(abilities))>> ELSE best)

\* highest.id ? highest : null
StatOrNull(best) == IF best # <<>> /\ best[1].id # "" THEN best ELSE <<>>

\* _getHighestStat()
_getHighestStat(monster) == StatOrNull(ScanStat(Higher, monster.abilities, <<>>))

\* _getLowestStat()
_getLowestStat(monster) == StatOrNull(ScanStat(Lower, monster.abilities, <<>>))

\* `${stat.label}: ${stat.value} (${Save}: ${saveSign}${stat.save})`
StatText(stat) ==
  <<W(stat.label), W(": "), N(stat.value), W(" ("), W("MKC.Chat.Save"), W(": ")>>
  \o (IF stat.save >= 0 THEN <<W("+")>> ELSE <<>>)
  \o <<N(stat.save), W(")")>>

\* _getHighestStatInfo()
_getHighestStatInfo(monster) ==
  LET stat == _getHighestStat(monster)
  IN  IF stat = <<>> THEN RetNull
      ELSE RetItem(ScalarItem("MKC.Chat.HighestStat", StatText(stat[1]), EmptyStr))

\* _getLowestStatInfo()
_getLowestStatInfo(monster) ==
  LET stat == _getLowestStat(monster)
  IN  IF stat = <<>> THEN RetNull
      ELSE RetItem(ScalarItem("MKC.Chat.LowestStat", StatText(stat[1]), EmptyStr))

\* x ?? "-" for a number x
NumOrDash(x) == IF x = <<>> THEN Dash ELSE Num(x[1])

\* x ?? 0 for a number x
NumOrZero(x) == IF x = <<>> THEN Num(0) ELSE Num(x[1])

Sep == Str(", ")

\* movement.units || "ft." (and senses.units || "ft.")
UnitsOf(units) == IF units # "" THEN units ELSE "ft."

\* one `if (movement.x) parts.push(...)` of _formatSpeed and _formatSenses
DistancePart(prefix, dist, units, suffix) ==
  IF dist # 0
  THEN <<(IF prefix # "" THEN <<W(prefix)>> ELSE <<>>)
         \o <<N(dist), W(" "), W(UnitsOf(units))>>
         \o (IF suffix # "" THEN <<W(suffix)>> ELSE <<>>)>>
  ELSE <<>>

\* parts.join(", ") || "-"
JoinOrDash(parts) == IF TruthyStr(Join(parts, Sep)) THEN Join(parts, Sep) ELSE Dash

\* _formatSpeed()
_formatSpeed(monster) ==
  IF monster.movement = <<>> THEN Dash
  ELSE LET m == monster.movement[1]
       IN  JoinOrDash(
             DistancePart("", m.walk, m.units, "")
             \o DistancePart("fly ", m.fly, m.units, IF m.hover THEN " (hover)" ELSE "")
             \o DistancePart("swim ", m.swim, m.units, "")
             \o DistancePart("climb ", m.climb, m.units, "")
             \o DistancePart("burrow ", m.burrow, m.units, ""))

\* _formatSenses()
_formatSenses(monster) ==
  IF monster.senses = <<>> THEN Dash
  ELSE LET s == monster.senses[1]
       IN  JoinOrDash(
             DistancePart("darkvision ", s.darkvision, s.units, "")
             \o DistancePart("blindsight ", s.blindsight, s.units, "")
             \o DistancePart("tremorsense ", s.tremorsense, s.units, "")
             \o DistancePart("truesight ", s.truesight, s.units, "")
             \o (IF s.special # "" THEN <<Str(s.special)>> ELSE <<>>))

\* CONFIG.DND5E.languages[lang]?.label || lang
LanguageLabel(lang) == IF lang = "common" THEN "Common" ELSE lang

\* _formatLanguages()
_formatLanguages(monster) ==
  IF monster.languages = <<>> THEN Dash
  ELSE LET l == monster.languages[1]
       IN  JoinOrDash(MapSeq(Str, MapSeq(LanguageLabel, l.value))
                      \o (IF l.custom # "" THEN <<Str(l.custom)>> ELSE <<>>))

\* CONFIG.DND5E.creatureTypes[typeValue]?.label || typeValue || "-"
CreatureTypeLabel(typeValue) ==
  IF typeValue = "undead" THEN "Undead"
  ELSE IF typeValue # "" THEN typeValue ELSE "-"

\* _formatCreatureType()
_formatCreatureType(monster) ==
  IF monster.subtype # ""
  THEN <<W(CreatureTypeLabel(monster.typeValue)), W(" ("), W(monster.subtype), W(")")>>
  ELSE Str(CreatureTypeLabel(monster.typeValue))

\* CONFIG.DND5E.abilities[id]?.abbreviation?.toUpperCase() || id
AbilityAbbreviation(id) ==
  IF id = "str" THEN "STR"
  ELSE IF id = "dex" THEN "DEX"
  ELSE IF id = "con" THEN "CON"
  ELSE id

\* `${label}: ${ability.value}`
StatPart(ability) == <<W(AbilityAbbreviation(ability.id)), W(": "), N(ability.value)>>

\* `${label}: ${sign}${save}`
SavePart(ability) ==
  <<W(AbilityAbbreviation(ability.id)), W(": ")>>
  \o (IF SaveOf(ability) >= 0 THEN <<W("+")>> ELSE <<>>)
  \o <<N(SaveOf(ability))>>

\* _formatAllStats()
_formatAllStats(monster) == Join(MapSeq(StatPart, monster.abilities), Sep)

\* _formatAllSaves()
_formatAllSaves(monster) == Join(MapSeq(SavePart, monster.abilities), Sep)

\* hp.formula || null
FormulaOrNull(formula) == IF formula # "" THEN Str(formula) ELSE EmptyStr

\* _getInfoByType(infoType)
_getInfoByType(monster, infoType) ==
  CASE infoType = "resistances" -> _getResistancesInfo(monster)
    [] infoType = "conditionImmunities" -> _getConditionImmunitiesInfo(monster)
    [] infoType = "highestStat" -> _getHighestStatInfo(monster)
    [] infoType = "lowestStat" -> _getLowestStatInfo(monster)
    [] infoType = "ac" ->
         RetItem(ScalarItem("MKC.InfoType.AC", NumOrDash(monster.ac), EmptyStr))
    [] infoType = "hp" ->
         RetItem(ScalarItem("MKC.InfoType.HP", NumOrDash(monster.hpMax),
                            FormulaOrNull(monster.hpFormula)))
    [] infoType = "speed" ->
         RetItem(ScalarItem("MKC.InfoType.Speed", _formatSpeed(monster), EmptyStr))
    [] infoType = "senses" ->
         RetItem(ScalarItem("MKC.InfoType.Senses", _formatSenses(monster), EmptyStr))
    [] infoType = "languages" ->
         RetItem(ScalarItem("MKC.InfoType.Languages", _formatLanguages(monster), EmptyStr))
    [] infoType = "cr" ->
         RetItem(ScalarItem("MKC.InfoType.CR", NumOrDash(monster.cr), EmptyStr))
    [] infoType = "creatureType" ->
         RetItem(ScalarItem("MKC.InfoType.CreatureType", _formatCreatureType(monster), EmptyStr))
    [] infoType = "allStats" ->
         RetItem(ScalarItem("MKC.InfoType.AllStats", _formatAllStats(monster), EmptyStr))
    [] infoType = "allSaves" ->
         RetItem(ScalarItem("MKC.InfoType.AllSaves", _formatAllSaves(monster), EmptyStr))
    [] infoType = "legendaryActions" ->
         RetItem(ScalarItem("MKC.InfoType.LegendaryActions", NumOrZero(monster.legact), EmptyStr))
    [] infoType = "legendaryResistances" ->
         RetItem(ScalarItem("MKC.InfoType.LegendaryResistances", NumOrZero(monster.legres), EmptyStr))
    [] OTHER -> RetNull

(***************************************************************************)
(* Knowledge gathering.                                                    *)
(***************************************************************************)
RECURSIVE ExtractAllUntilNull(_, _)
\* variant of ExtractAll that gives up at the first kind that extracts to null
ExtractAllUntilNull(monster, infoTypes) ==
  IF infoTypes = <<>> THEN <<>>
  ELSE IF _getInfoByType(monster, Head(infoTypes)).kind = "null" THEN <<>>
  ELSE _getInfoByType(monster, Head(infoTypes)).items
       \o ExtractAllUntilNull(monster, Tail(infoTypes))

RECURSIVE ExtractAll(_, _)
\* the inner loop of _gatherKnowledge: tierData.info after all infoTypes.
\* A null is skipped; an array is spread, a single item is pushed.
ExtractAll(monster, infoTypes) ==
  IF infoTypes = <<>> THEN <<>>
  ELSE _getInfoByType(monster, Head(infoTypes)).items
       \o ExtractAll(monster, Tail(infoTypes))

\* tierLabels[tierId]
TierLabel(tierId) ==
  CASE tierId = "tier1" -> "MKC.Tier.I"
    [] tierId = "tier2" -> "MKC.Tier.II"
    [] tierId = "tier3" -> "MKC.Tier.III"
    [] tierId = "tier4" -> "MKC.Tier.IV"
    [] tierId = "tier5" -> "MKC.Tier.V"

TierData(tierId, info) ==
  [id |-> tierId, label |-> TierLabel(tierId), level |-> TierLevel(tierId),
   unlocked |-> TRUE, info |-> info]

\* variant of GatherTier that does not test `unlocked`
GatherTierIgnoringLock(knowledge, entry, tierConfig, monster) ==
  LET infoTypes == tierConfig[entry.tier].info
      info == ExtractAll(monster, infoTypes)
  IN  IF Len(infoTypes) = 0 THEN knowledge
      ELSE [tiers |-> IF Len(info) > 0
                      THEN Append(knowledge.tiers, TierData(entry.tier, info))
                      ELSE knowledge.tiers,
            hasAny |-> TRUE]

\* variant of GatherTier that pushes tierData without testing
\* tierData.info.length > 0
GatherTierKeepingEmpty(knowledge, entry, tierConfig, monster) ==
  IF entry.unlocked /\ entry.tier \in DOMAIN tierConfig
  THEN LET infoTypes == tierConfig[entry.tier].info
           info == ExtractAll(monster, infoTypes)
       IN  IF Len(infoTypes) = 0 THEN knowledge
           ELSE [tiers |-> Append(knowledge.tiers, TierData(entry.tier, info)),
                 hasAny |-> TRUE]
  ELSE knowledge

\* one iteration of the outer loop of _gatherKnowledge
GatherTier(knowledge, entry, tierConfig, monster) ==
  IF entry.unlocked /\ entry.tier \in DOMAIN tierConfig
  THEN LET infoTypes == tierConfig[entry.tier].info
           info == ExtractAll(monster, infoTypes)
       IN  IF Len(infoTypes) = 0 THEN knowledge
           ELSE [tiers |-> IF Len(info) > 0
                           THEN Append(knowledge.tiers, TierData(entry.tier, info))
                           ELSE knowledge.tiers,
                 hasAny |-> TRUE]
  ELSE knowledge

RECURSIVE GatherFrom(_, _, _, _)
GatherFrom(knowledge, unlockedTiers, tierConfig, monster) ==
  IF unlockedTiers = <<>> THEN knowledge
  ELSE GatherFrom(GatherTier(knowledge, Head(unlockedTiers), tierConfig, monster),
                  Tail(unlockedTiers), tierConfig, monster)

\* _gatherKnowledge(unlockedTiers, tierConfig) on this.monster
_gatherKnowledge(unlockedTiers, tierConfig, monster) ==
  GatherFrom([tiers |-> <<>>, hasAny |-> FALSE], unlockedTiers, tierConfig, monster)

(***************************************************************************)
(* The knowledge check dialog (MonsterKnowledgeDialog).                    *)
(***************************************************************************)
ClosedDialog ==
  [pc |-> "closed", monster |-> "", tier5Configured |-> FALSE, tierConfig |-> <<>>,
   dcs |-> <<>>, dcModifier |-> 0, autopass |-> "", effectiveTotal |-> <<>>,
   unlockedTiers |-> <<>>, knowledge |-> <<>>]

\* the autopass choices of the rendered form: none, or a tier of context.dcs
AutopassOptions ==
  {""} \cup {t \in Tiers : t # "tier5" \/ dialog.tier5Configured}

\* ui.notifications.warn(game.i18n.localize(key)): the notifications of the
\* handler that notified last
Warn(key) == <<[level |-> "warn", key |-> key, name |-> ""]>>

\* the sequences over S of length at most n
SeqsUpTo(S, n) == UNION {[1..k -> S] : k \in 0..n}

\* a token: the id of its actor, NoActor if it has none; game.user.targets
\* is the sequence of the targeted tokens
NoActor == ""

\* token.actor of the token: <<>> when null
ActorOf(token) == IF token \in DOMAIN actors THEN <<token>> ELSE <<>>

\* variant of getAvailableCharacters that lets every user use any character
getAvailableCharactersOfAnyone ==
  {a \in DOMAIN actors : actors[a].type = "character"}

\* getAvailableCharacters(): all characters for a GM, the owned ones otherwise
getAvailableCharacters ==
  {a \in DOMAIN actors :
     /\ actors[a].type = "character"
     /\ (user.isGM \/ actors[a].isOwner)}

\* the warning onMonsterKnowledgeClick returns with, "" when it goes on
ClickWarning(targets) ==
  IF Len(targets) = 0 THEN "MKC.Warnings.NoTokenTargeted"
  ELSE IF Len(targets) > 1 THEN "MKC.Warnings.MultipleTokensTargeted"
  ELSE IF ActorOf(targets[1]) = <<>> THEN "MKC.Warnings.NoActorOnToken"
  ELSE IF actors[targets[1]].type # "npc" THEN "MKC.Warnings.NotAnNPC"
  ELSE IF getAvailableCharacters = {} THEN "MKC.Warnings.NoPlayerCharacter"
  ELSE ""

\* onMonsterKnowledgeClick() with game.user.targets = targets: a warning and
\* return, or the dialog is rendered (_prepareContext reads the settings
\* for the form)
onMonsterKnowledgeClick(targets) ==
  /\ dialog.pc = "closed"
  /\ LET warning == ClickWarning(targets)
     IN  IF warning # ""
         THEN /\ notice' = Warn(warning)
              /\ dialog' = dialog
         ELSE /\ notice' = notice
              /\ dialog' = [ClosedDialog EXCEPT !.pc = "open", !.monster = targets[1],
                              !.tier5Configured = Tier5Configured(getAllTierConfig)]
  /\ UNCHANGED <<user, menu, actors, dcSetting, infoSetting, chat, journals, commits>>

\* the dialog is closed without submitting
CloseDialog ==
  /\ dialog.pc = "open"
  /\ dialog' = ClosedDialog
  /\ UNCHANGED <<user, menu, actors, dcSetting, infoSetting, chat, journals, commits, notice>>

\* _performKnowledgeCheck from _determineUnlockedTiers to the await of
\* renderTemplate in _sendResultToChat
Resolved(d, effectiveTotal) ==
  LET unlockedTiers == _determineUnlockedTiers(effectiveTotal, d.dcs[1])
  IN  [d EXCEPT !.pc = "rendering",
                !.effectiveTotal = effectiveTotal,
                !.unlockedTiers = unlockedTiers,
                !.knowledge = <<_gatherKnowledge(unlockedTiers, d.tierConfig[1],
                                                 actors[d.monster])>>]

\* _onSubmitForm -> _performKnowledgeCheck(skill, advantage, dcModifier, autopass):
\* the settings are read, the thresholds computed; an autopass resolves at
\* once (effectiveTotal = dcs[autopass]), a roll awaits roll.evaluate()
_performKnowledgeCheck(dcModifier, autopass) ==
  /\ dialog.pc = "open"
  /\ LET tierConfig == getAllTierConfig
         dcs == EffectiveDCs(tierConfig, dcModifier)
         d == [dialog EXCEPT !.tierConfig = <<tierConfig>>, !.dcs = <<dcs>>,
                             !.dcModifier = dcModifier, !.autopass = autopass]
     IN  dialog' = IF autopass # "" THEN Resolved(d, dcs[autopass])
                   ELSE [d EXCEPT !.pc = "rolling"]
  /\ UNCHANGED <<user, menu, actors, dcSetting, infoSetting, chat, journals, commits, notice>>

\* variant of RollEvaluated that reads the info configuration again
RollEvaluatedRereading(total) ==
  /\ dialog.pc = "rolling"
  /\ dialog' = Resolved([dialog EXCEPT !.tierConfig = <<getAllTierConfig>>], <<total>>)
  /\ UNCHANGED <<user, menu, actors, dcSetting, infoSetting, chat, journals, commits, notice>>

\* roll.evaluate() resolves with roll.total = total
RollEvaluated(total) ==
  /\ dialog.pc = "rolling"
  /\ dialog' = Resolved(dialog, <<total>>)
  /\ UNCHANGED <<user, menu, actors, dcSetting, infoSetting, chat, journals, commits, notice>>

\* messageData.flags[MODULE_ID] (and hasKnowledge of the rendered content)
ChatMessage(d) ==
  [monsterId |-> d.monster, monsterName |-> actors[d.monster].name,
   hasKnowledge |-> d.knowledge[1].hasAny, knowledge |-> d.knowledge[1]]

\* _sendResultToChat: ChatMessage.create(messageData); the dialog closes
_sendResultToChat ==
  /\ dialog.pc = "rendering"
  /\ chat' = chat \cup {ChatMessage(dialog)}
  /\ dialog' = ClosedDialog
  /\ UNCHANGED <<user, menu, actors, dcSetting, infoSetting, journals, commits, notice>>

Modifiers == -MaxDC..MaxMod

RollTotals == -MaxMod..(MaxDC + MaxMod)

\* the steps of a knowledge check while the chat log holds fewer than cap
\* module messages
KnowledgeCheckNext(cap, Targets, Mods, Totals) ==
  \/ Cardinality(chat) < cap /\ \E targets \in Targets : onMonsterKnowledgeClick(targets)
  \/ CloseDialog
  \/ \E m \in Mods, ap \in AutopassOptions : _performKnowledgeCheck(m, ap)
  \/ \E t \in Totals : RollEvaluated(t)
  \/ _sendResultToChat

(***************************************************************************)
(* Worlds: the actors of the game.                                         *)
(***************************************************************************)
NoTrait == <<>>
Trait(value, custom) == <<[value |-> value, custom |-> custom]>>

BlankMonster ==
  [name |-> "Blank", type |-> "npc",
   dv |-> NoTrait, dr |-> NoTrait, di |-> NoTrait, ci |-> NoTrait,
   abilities |-> <<>>, ac |-> <<>>, hpMax |-> <<>>, hpFormula |-> "",
   movement |-> <<>>, senses |-> <<>>, languages |-> NoTrait, cr |-> <<>>,
   typeValue |-> "", subtype |-> "", legact |-> <<>>, legres |-> <<>>]

Ability(id, value, save) == [id |-> id, value |-> value, save |-> save]

Goblin ==
  [BlankMonster EXCEPT
     !.name = "Goblin",
     !.dr = Trait(<<"fire">>, ""),
     !.ci = Trait(<<"charmed">>, ""),
     !.abilities = <<Ability("str", 8, <<-1>>), Ability("dex", 14, <<2>>),
                     Ability("con", 10, <<0>>)>>,
     !.ac = <<15>>, !.hpMax = <<7>>, !.hpFormula = "2d6",
     !.movement = <<[walk |-> 30, fly |-> 0, swim |-> 0, climb |-> 0, burrow |-> 0,
                     hover |-> FALSE, units |-> "ft"]>>,
     !.senses = <<[darkvision |-> 60, blindsight |-> 0, tremorsense |-> 0,
                   truesight |-> 0, special |-> "", units |-> ""]>>,
     !.languages = Trait(<<"common">>, "Goblin"),
     !.cr = <<1>>, !.typeValue = "humanoid", !.subtype = "goblinoid"]

Orc ==
  [Goblin EXCEPT
     !.name = "Orc",
     !.dr = NoTrait,
     !.dv = Trait(<<>>, "radiant from good clerics"),
     !.abilities = <<Ability("str", 16, <<3>>), Ability("dex", 12, <<1>>),
                     Ability("con", 16, <<3>>)>>]

\* a player character, owned by the user or not
Character(name, isOwner) == [name |-> name, type |-> "character", isOwner |-> isOwner]

Hero == Character("Hero", TRUE)

\* a world with a single npc and a single character
WorldOf(monster) == [id \in {"npc1", "pc1"} |-> IF id = "npc1" THEN monster ELSE Hero]

\* game.user
GM == [isGM |-> TRUE]
Player == [isGM |-> FALSE]

\* the clicks with exactly one token targeted, that of an npc
NpcTargets == {<<a>> : a \in {b \in DOMAIN actors : actors[b].type = "npc"}}

(***************************************************************************)
(* The bestiary journal.                                                   *)
(***************************************************************************)
\* game.i18n.localize("MKC.Journal.BestiaryName")
journalName == "MKC.Journal.BestiaryName"

\* new Date().toLocaleDateString()
timestamp == "today"

\* one info of a tier, as buildBestiaryContent writes it (no item carries
\* subItems)
InfoContent(info) ==
  <<W("<p>"), W(info.label)>>
  \o (IF info.isList
      THEN IF Len(info.items) # 0
           THEN Join(MapSeq(Str, info.items), Sep)
           ELSE <<W("<em>"), W(IF info.emptyText # "" THEN info.emptyText ELSE "None")>>
      ELSE info.value
           \o (IF TruthyStr(info.formula) THEN <<W(" (")>> \o info.formula \o <<W(")")>>
               ELSE <<>>))

RECURSIVE Concat(_)
Concat(texts) == IF texts = <<>> THEN <<>> ELSE Head(texts) \o Concat(Tail(texts))

TierContent(tier) == <<W("<h3>"), W(tier.label)>> \o Concat(MapSeq(InfoContent, tier.info))

\* buildBestiaryContent(knowledge, monsterName)
buildBestiaryContent(knowledge) ==
  <<W("MKC.Journal.LastUpdated"), W(timestamp), W("<hr>")>>
  \o Concat(MapSeq(TierContent, knowledge.tiers))

\* variant of mergeBestiaryContent that keeps the existing text and appends
mergeBestiaryContentAppending(existingContent, newContent) == existingContent \o newContent

\* mergeBestiaryContent(existingContent, newContent)
mergeBestiaryContent(existingContent, newContent) == newContent

Page(name, content) == [name |-> name, content |-> content]

\* the invocations of the "add to bestiary" click handler that may overlap
CommitIds == {1, 2}

IdleCommit ==
  [pc |-> "idle", monsterName |-> "", knowledge |-> <<>>, existing |-> <<>>,
   content |-> <<>>, journal |-> 0, page |-> 0]

\* ui.notifications.info(game.i18n.format(key, {name})): the notification shown last
Info(key, name) == <<[level |-> "info", key |-> key, name |-> name]>>

\* index of the first element of s satisfying Test, 0 if none: Array.find
FindFirst(s, Test(_)) ==
  IF \E i \in DOMAIN s : Test(s[i])
  THEN CHOOSE i \in DOMAIN s : Test(s[i]) /\ \A j \in 1..(i - 1) : ~Test(s[j])
  ELSE 0

\* game.journal.find(j => j.name === journalName)
FindBestiary ==
  LET IsBestiary(j) == j.name = journalName IN FindFirst(journals, IsBestiary)

\* variant of FindPage that takes the first page of the journal
FindPageOfAnyName(j, monsterName) ==
  LET IsPage(pg) == TRUE IN FindFirst(journals[j].pages, IsPage)

\* bestiary.pages.find(p => p.name === monsterName)
FindPage(j, monsterName) ==
  LET IsPage(pg) == pg.name = monsterName IN FindFirst(journals[j].pages, IsPage)

\* ui.notifications.error(game.i18n.localize(key))
Error(key) == <<[level |-> "error", key |-> key, name |-> ""]>>

\* variant of CanCommit with the button shown to every user
CanCommitAnyUser == TRUE

\* the renderChatMessage hook shows the button and listens to it for GMs only
CanCommit == user.isGM

\* variant of GetActor that goes on with a nameless monster
GetActorOrUnknown(monsterId) ==
  IF monsterId \in DOMAIN actors THEN <<actors[monsterId]>>
  ELSE <<[name |-> "unknown"]>>

\* game.actors.get(monsterId): <<>> when undefined
GetActor(monsterId) == IF monsterId \in DOMAIN actors THEN <<actors[monsterId]>> ELSE <<>>

\* the commit of addToBestiary for the monster found, up to its await
StartedCommit(monster, message) ==
  LET monsterName == monster.name
      content == buildBestiaryContent(message.knowledge)
      bestiary == FindBestiary
      existingPage == IF bestiary = 0 THEN 0 ELSE FindPage(bestiary, monsterName)
      pc == IF bestiary = 0 THEN "creatingJournal"
            ELSE IF existingPage # 0 THEN "updatingPage" ELSE "creatingPage"
      existing == IF existingPage # 0
                  THEN journals[bestiary].pages[existingPage].content ELSE <<>>
      text == IF existingPage # 0 THEN mergeBestiaryContent(existing, content)
              ELSE content
  IN  [pc |-> pc, monsterName |-> monsterName,
       knowledge |-> <<message.knowledge>>, existing |-> existing, content |-> text,
       journal |-> bestiary, page |-> existingPage]

\* the click handler of .mkc-add-to-bestiary on a module chat message, and
\* addToBestiary(flags.monsterId, flags.knowledge) up to its await, or to
\* its return with an error when the monster is not found
addToBestiary(c, message) ==
  /\ commits[c].pc = "idle"
  /\ message \in chat
  /\ CanCommit
  /\ LET monster == GetActor(message.monsterId)
     IN  IF monster = <<>>
         THEN /\ notice' = Error("MKC.Errors.MonsterNotFound")
              /\ commits' = commits
         ELSE /\ notice' = notice
              /\ commits' = [commits EXCEPT ![c] = StartedCommit(monster[1], message)]
  /\ UNCHANGED <<user, menu, actors, dcSetting, infoSetting, dialog, chat, journals>>

\* await JournalEntry.create({name: journalName, pages: [{name, text}]})
JournalCreated(c) ==
  /\ commits[c].pc = "creatingJournal"
  /\ journals' = Append(journals,
                        [name |-> journalName,
                         pages |-> <<Page(commits[c].monsterName, commits[c].content)>>])
  /\ commits' = [commits EXCEPT ![c] = IdleCommit]
  /\ notice' = Info("MKC.Journal.Created", commits[c].monsterName)
  /\ UNCHANGED <<user, menu, actors, dcSetting, infoSetting, dialog, chat>>

\* variant of PageUpdated that drops the write when the page text is not
\* the text the commit read
PageUpdatedIfUnchanged(c) ==
  /\ commits[c].pc = "updatingPage"
  /\ journals' =
       IF journals[commits[c].journal].pages[commits[c].page].content = commits[c].existing
       THEN [journals EXCEPT
               ![commits[c].journal].pages[commits[c].page].content = commits[c].content]
       ELSE journals
  /\ commits' = [commits EXCEPT ![c] = IdleCommit]
  /\ notice' = Info("MKC.Journal.Updated", commits[c].monsterName)
  /\ UNCHANGED <<user, menu, actors, dcSetting, infoSetting, dialog, chat>>

\* await existingPage.update({"text.content": mergedContent})
PageUpdated(c) ==
  /\ commits[c].pc = "updatingPage"
  /\ journals' = [journals EXCEPT
                    ![commits[c].journal].pages[commits[c].page].content =
                       commits[c].content]
  /\ commits' = [commits EXCEPT ![c] = IdleCommit]
  /\ notice' = Info("MKC.Journal.Updated", commits[c].monsterName)
  /\ UNCHANGED <<user, menu, actors, dcSetting, infoSetting, dialog, chat>>

\* await bestiary.createEmbeddedDocuments("JournalEntryPage", [{name, text}])
PageCreated(c) ==
  /\ commits[c].pc = "creatingPage"
  /\ journals' = [journals EXCEPT
                    ![commits[c].journal].pages =
                       Append(@, Page(commits[c].monsterName, commits[c].content))]
  /\ commits' = [commits EXCEPT ![c] = IdleCommit]
  /\ notice' = Info("MKC.Journal.PageAdded", commits[c].monsterName)
  /\ UNCHANGED <<user, menu, actors, dcSetting, infoSetting, dialog, chat>>

NoCommitInFlight == \A c \in CommitIds : commits[c].pc = "idle"

\* the actor a is deleted from the world (game.actors.get(a) is undefined
\* from now on, and a token of a has no actor); no dialog is open on it
ActorDeleted(a) ==
  /\ dialog.pc = "closed"
  /\ a \in DOMAIN actors
  /\ actors[a].type = "npc"
  /\ actors' = [b \in DOMAIN actors \ {a} |-> actors[b]]
  /\ UNCHANGED <<user, menu, dcSetting, infoSetting, dialog, chat, journals, commits, notice>>

\* the steps of the bestiary commits; with overlap FALSE a commit starts
\* only when no other is in flight
BestiaryNext(overlap) ==
  \/ (overlap \/ NoCommitInFlight) /\ \E c \in CommitIds, m \in chat : addToBestiary(c, m)
  \/ \E c \in CommitIds : JournalCreated(c)
  \/ \E c \in CommitIds : PageUpdated(c)
  \/ \E c \in CommitIds : PageCreated(c)

(***************************************************************************)
(* Specifications.                                                         *)
(***************************************************************************)
\* DC settings tier i -> i
SmallDCs == [t \in Tiers |-> TierLevel(t)]

NothingYet ==
  /\ menu = IdleMenu
  /\ dialog = ClosedDialog
  /\ chat = {}
  /\ journals = <<>>
  /\ commits = [c \in CommitIds |-> IdleCommit]
  /\ notice = <<>>

\* TierSpec: one knowledge check from every DC configuration, with tier 5
\* unconfigured or configured
TierInit ==
  /\ user = Player
  /\ actors = WorldOf(Goblin)
  /\ dcSetting \in [Tiers -> DCMin..MaxDC] \cup {DEFAULT_DCS}
  /\ infoSetting \in {DEFAULT_TIER_INFO, [DEFAULT_TIER_INFO EXCEPT !["tier5"] = <<"ac">>]}
  /\ NothingYet

TierNext == KnowledgeCheckNext(1, NpcTargets, Modifiers, RollTotals)

TierSpec == TierInit /\ [][TierNext]_vars

\* Spec: the checks and the commits of a game with two monsters,
\* commits overlapping freely
TheWorld ==
  [id \in {"npc1", "npc2", "pc1"} |->
     CASE id = "npc1" -> Goblin [] id = "npc2" -> Orc [] OTHER -> Hero]

Init ==
  /\ user = GM
  /\ actors = TheWorld
  /\ dcSetting = SmallDCs
  /\ infoSetting = DEFAULT_TIER_INFO
  /\ NothingYet

SmallTotals == 0..2

Next == KnowledgeCheckNext(MaxMessages, NpcTargets, {0}, SmallTotals) \/ BestiaryNext(TRUE)

Spec == Init /\ [][Next]_vars

\* SeqSpec: the same, each commit completing before the next starts
SeqNext == KnowledgeCheckNext(MaxMessages, NpcTargets, {0}, SmallTotals) \/ BestiaryNext(FALSE)

SeqSpec == Init /\ [][SeqNext]_vars

(***************************************************************************)
(* RaceSpec: the checks of a GM or of a player on two monsters, every tier *)
(* with the lowest DC, and the commits, overlapping freely.                *)
(***************************************************************************)
\* DC settings: every tier at the minimum
FlatDCs == [t \in Tiers |-> DCMin]

RaceInit ==
  /\ user \in {GM, Player}
  /\ actors = TheWorld
  /\ dcSetting = FlatDCs
  /\ infoSetting = DEFAULT_TIER_INFO
  /\ NothingYet

RaceSpec == RaceInit /\ [][Next]_vars

(***************************************************************************)
(* NameSpec: the checks and the commits, one at a time, of a game with two *)
(* monsters of the same display name and a third of another name.          *)
(***************************************************************************)
\* another actor displayed as "Goblin", with other data
Twin == [Orc EXCEPT !.name = Goblin.name]

TwinWorld ==
  [id \in {"npc1", "npc2", "npc3", "pc1"} |->
     CASE id = "npc1" -> Goblin [] id = "npc2" -> Orc [] id = "npc3" -> Twin
       [] OTHER -> Hero]

NameInit ==
  /\ user = GM
  /\ actors = TwinWorld
  /\ dcSetting = SmallDCs
  /\ infoSetting = DEFAULT_TIER_INFO
  /\ NothingYet

NameSpec == NameInit /\ [][SeqNext]_vars

(***************************************************************************)
(* SessionSpec: the clicks of a GM or a player with any targets, in worlds *)
(* with an owned character, a character of somebody else or no character,  *)
(* the checks and the commits that follow, and the deletion of the        *)
(* monster.                                                                *)
(***************************************************************************)
Rival == Character("Rival", FALSE)

SessionWorlds ==
  {TheWorld,
   [TheWorld EXCEPT !["pc1"] = Rival],
   [id \in {"npc1", "npc2"} |-> TheWorld[id]]}

\* the tokens of the scene: of the npcs, of the character, and one without actor
Tokens == {"npc1", "npc2", "pc1", NoActor}

\* game.user.targets of a click: up to two tokens
AllTargets == SeqsUpTo(Tokens, 2)

SessionInit ==
  /\ user \in {GM, Player}
  /\ actors \in SessionWorlds
  /\ dcSetting = FlatDCs
  /\ infoSetting = DEFAULT_TIER_INFO
  /\ NothingYet

SessionNext ==
  \/ KnowledgeCheckNext(MaxMessages, AllTargets, {0}, SmallTotals)
  \/ BestiaryNext(FALSE)
  \/ \E a \in DOMAIN actors : ActorDeleted(a)

SessionSpec == SessionInit /\ [][SessionNext]_vars

(***************************************************************************)
(* ConfigSpec: the checks of a game whose GM changes two DC settings and   *)
(* saves the tier configuration menu while dialogs are open and rolls      *)
(* pending.                                                                *)
(***************************************************************************)
\* the forms the menu is saved with: the defaults, and another selection
DefaultForm ==
  [tier1 |-> {"resistances"}, tier2 |-> {"conditionImmunities"},
   tier3 |-> {"highestStat"}, tier4 |-> {"lowestStat"}, tier5 |-> {}]

OtherForm ==
  [tier1 |-> {"ac", "resistances"}, tier2 |-> {"conditionImmunities"},
   tier3 |-> {}, tier4 |-> {"lowestStat"}, tier5 |-> {"hp"}]

ConfigForms == {DefaultForm, OtherForm}

ConfigTiers == {"tier1", "tier3"}

ConfigDCs == {DCMin, DCMin + 2}

ConfigTotals == 0..(DCMin + 2)

ConfigInit ==
  /\ user = GM
  /\ actors = WorldOf(Goblin)
  /\ dcSetting = SmallDCs
  /\ infoSetting = DEFAULT_TIER_INFO
  /\ NothingYet

ConfigNext ==
  \/ KnowledgeCheckNext(1, NpcTargets, {0}, ConfigTotals)
  \/ \E data \in ConfigForms : TierConfigSubmit(data)
  \/ SettingSaved
  \/ \E tier \in ConfigTiers, dc \in ConfigDCs : SetDC(tier, dc)

ConfigSpec == ConfigInit /\ [][ConfigNext]_vars

(***************************************************************************)
(* GatherSpec: one knowledge check, from every info configuration of a     *)
(* few kinds on two monsters, and from the default configuration on every  *)
(* monster of a family of damage traits and ability maps.                  *)
(***************************************************************************)
MixedKinds == <<"bogus", "ac", "highestStat", "hp">>

InfoChoices ==
  {EmptySetting, <<"bogus">>, <<"highestStat">>, <<"resistances", " ", "ac">>, MixedKinds}

DamageTypes == {"fire", "ooze"}

TraitChoices ==
  {NoTrait} \cup {Trait(value, custom) :
                    value \in SeqsUpTo(DamageTypes, MaxTraitLen),
                    custom \in {"", "magic weapons"}}

TraitMonsters ==
  {[BlankMonster EXCEPT !.name = "Traits", !.dv = dv, !.dr = dr, !.di = di] :
     dv \in TraitChoices, dr \in TraitChoices, di \in TraitChoices}

\* Object.entries(abilities): the ids in their canonical order
AbilityIds == <<"str", "dex", "con", "int", "wis", "cha">>

\* the save of an ability of the family: absent for score 1
SaveFor(value) == IF value = 1 THEN <<>> ELSE <<value - 3>>

AbilityMaps ==
  {[i \in 1..k |-> Ability(AbilityIds[i], scores[i], SaveFor(scores[i]))] :
     k \in 0..MaxAbilities, scores \in [1..MaxAbilities -> 1..MaxScore]}

AbilityMonsters ==
  {[BlankMonster EXCEPT !.name = "Abilities", !.abilities = abilities] :
     abilities \in AbilityMaps}

\* the composed kinds, as one tier's info setting
ComposedKinds == <<"speed", "senses", "languages", "creatureType", "allStats", "allSaves">>

NoMovement ==
  [walk |-> 0, fly |-> 0, swim |-> 0, climb |-> 0, burrow |-> 0, hover |-> FALSE,
   units |-> ""]

NoSenses ==
  [darkvision |-> 0, blindsight |-> 0, tremorsense |-> 0, truesight |-> 0,
   special |-> "", units |-> ""]

\* monsters with each attribute group absent, present without entries, or
\* with entries
ComposedMonsters ==
  {[BlankMonster EXCEPT !.name = "Composed", !.movement = movement, !.senses = senses,
                        !.languages = languages, !.typeValue = typeValue,
                        !.abilities = abilities] :
     movement \in {<<>>, <<NoMovement>>,
                   <<[NoMovement EXCEPT !.walk = 30, !.fly = 60, !.hover = TRUE]>>},
     senses \in {<<>>, <<NoSenses>>, <<[NoSenses EXCEPT !.darkvision = 60]>>},
     languages \in {NoTrait, Trait(<<>>, ""), Trait(<<"common">>, "")},
     typeValue \in {"", "undead"},
     abilities \in {<<>>, Goblin.abilities}}

GatherInit ==
  /\ user = Player
  /\ dcSetting = SmallDCs
  /\ \/ /\ infoSetting \in [Tiers -> InfoChoices]
        /\ actors \in {WorldOf(BlankMonster), WorldOf(Goblin)}
     \/ /\ infoSetting = DEFAULT_TIER_INFO
        /\ actors \in {WorldOf(m) : m \in TraitMonsters \cup AbilityMonsters}
     \/ /\ infoSetting = [DEFAULT_TIER_INFO EXCEPT !["tier1"] = ComposedKinds]
        /\ actors \in {WorldOf(m) : m \in ComposedMonsters}
  /\ NothingYet

GatherMods == {-1, 0}

GatherTotals == 0..5

GatherNext == KnowledgeCheckNext(1, NpcTargets, GatherMods, GatherTotals)

GatherSpec == GatherInit /\ [][GatherNext]_vars

(***************************************************************************)
(* Properties.                                                             *)
(***************************************************************************)
\* a check has been resolved: unlockedTiers and knowledge are computed
Rendered == dialog.pc = "rendering"

\* the keys of the UnlockedTierSet
UnlockedKeys == {dialog.unlockedTiers[i].tier : i \in DOMAIN dialog.unlockedTiers}

\* tier t is unlocked in the UnlockedTierSet
IsUnlocked(t) ==
  \E i \in DOMAIN dialog.unlockedTiers :
     dialog.unlockedTiers[i].tier = t /\ dialog.unlockedTiers[i].unlocked

\* the thresholds present in dcs increase strictly with the tier
StrictlyIncreasing(dcs) ==
  \A a, b \in Tiers :
     (dcs[a] # <<>> /\ dcs[b] # <<>> /\ TierLevel(a) < TierLevel(b))
        => dcs[a][1] < dcs[b][1]

\* C1: for every effective total and every tier whose effective threshold
\* (base DC plus modifier, 0 and negative values included) is present in
\* dcs, the tier is unlocked iff total >= threshold.
C1_UnlockedIffTotalAtLeastThreshold ==
  Rendered =>
    \A t \in Tiers :
       dialog.dcs[1][t] # <<>> =>
         (IsUnlocked(t) <=>
            (dialog.effectiveTotal # <<>>
             /\ dialog.effectiveTotal[1] >= dialog.dcs[1][t][1]))

\* C2: the keys of the UnlockedTierSet are exactly tiers 1 to 4, plus tier 5
\* iff tier 5 has a threshold and at least one configured information kind,
\* for every difficulty modifier.
C2_KeysAreTheTiersWithThreshold ==
  Rendered =>
    UnlockedKeys =
      {"tier1", "tier2", "tier3", "tier4"}
      \cup (IF Len(dialog.tierConfig[1]["tier5"].info) > 0 THEN {"tier5"} ELSE {})

\* C3: with effective thresholds strictly increasing across the tiers, a
\* total that unlocks tier k unlocks every tier j < k.
C3_UnlockingIsDownwardClosed ==
  (Rendered /\ StrictlyIncreasing(dialog.dcs[1])) =>
    \A k, j \in Tiers :
       (TierLevel(j) < TierLevel(k) /\ IsUnlocked(k)) => IsUnlocked(j)

\* C4: an autopass at tier T with any modifier and strictly increasing
\* configured thresholds has effective total thresholds[T] + modifier,
\* unlocks T and every lower tier, and unlocks no tier above T.
C4_AutopassUnlocksExactlyUpToT ==
  (Rendered /\ dialog.autopass # "" /\ StrictlyIncreasing(dialog.dcs[1])) =>
    /\ dialog.effectiveTotal =
         <<dialog.tierConfig[1][dialog.autopass].dc + dialog.dcModifier>>
    /\ \A t \in Tiers :
         IsUnlocked(t) <=>
           (dialog.dcs[1][t] # <<>> /\ TierLevel(t) <= TierLevel(dialog.autopass))

\* the bundle of the resolved check, its tier ids, and the entry of tier t
BundleTiers == dialog.knowledge[1].tiers

BundleIds == {BundleTiers[i].id : i \in DOMAIN BundleTiers}

BundleInfo(t) == BundleTiers[CHOOSE i \in DOMAIN BundleTiers : BundleTiers[i].id = t].info

\* the information kinds configured for tier t in the check's configuration
ConfiguredKinds(t) == dialog.tierConfig[1][t].info

\* the monster of the check
Monster == actors[dialog.monster]

\* C5: a tier whose configured kind list is empty never appears in the
\* bundle, even when unlocked, and a tier that is not unlocked never appears.
C5_EmptyOrLockedTierNeverInBundle ==
  Rendered =>
    \A t \in Tiers :
       (Len(ConfiguredKinds(t)) = 0 \/ ~IsUnlocked(t)) => t \notin BundleIds

\* an unlocked tier with an empty kind list, and a bundle with zero tiers
C5_Witness ==
  /\ Rendered
  /\ \E t \in Tiers : IsUnlocked(t) /\ Len(ConfiguredKinds(t)) = 0
  /\ \E t \in Tiers : ~IsUnlocked(t) /\ Len(ConfiguredKinds(t)) > 0
  /\ BundleTiers = <<>>

\* C6: hasAny is true iff the bundle's tier list contains at least one tier
\* with at least one item.
C6_HasAnyIffSomeItem ==
  Rendered =>
    (dialog.knowledge[1].hasAny <=>
       \E i \in DOMAIN BundleTiers : Len(BundleTiers[i].info) > 0)

\* C7: every tier entry of a bundle has a non-empty item list, and the
\* entries are in strictly ascending tier order (so each tier at most once).
C7_BundleTiersNonEmptyAscending ==
  Rendered =>
    /\ \A i \in DOMAIN BundleTiers :
         /\ Len(BundleTiers[i].info) > 0
         /\ BundleTiers[i].level = TierLevel(BundleTiers[i].id)
    /\ \A i, j \in DOMAIN BundleTiers :
         i < j => TierLevel(BundleTiers[i].id) < TierLevel(BundleTiers[j].id)

\* an unlocked tier with configured kinds that all extract to nothing is
\* omitted, between or beside two tiers that are present
C7_Witness ==
  /\ Rendered
  /\ Len(BundleTiers) >= 2
  /\ \E t \in Tiers :
       IsUnlocked(t) /\ Len(ConfiguredKinds(t)) > 0 /\ t \notin BundleIds

\* a damage trait category is non-empty: it lists a type or has custom text
NonEmptyTrait(trait) ==
  trait # <<>> /\ (Len(trait[1].value) > 0 \/ trait[1].custom # "")

\* the number of entries a category shows: its types, then its custom text
TraitSize(trait) == Len(trait[1].value) + (IF trait[1].custom # "" THEN 1 ELSE 0)

\* the non-empty categories of a monster in the order vulnerabilities,
\* resistances, immunities
NonEmptyCategories(monster) ==
  (IF NonEmptyTrait(monster.dv)
   THEN <<[label |-> "MKC.Chat.DamageVulnerabilities", trait |-> monster.dv]>> ELSE <<>>)
  \o (IF NonEmptyTrait(monster.dr)
      THEN <<[label |-> "MKC.Chat.DamageResistances", trait |-> monster.dr]>> ELSE <<>>)
  \o (IF NonEmptyTrait(monster.di)
      THEN <<[label |-> "MKC.Chat.DamageImmunities", trait |-> monster.di]>> ELSE <<>>)

\* C8: kind `resistances` yields exactly one list item per non-empty
\* category, in the order vulnerabilities, resistances, immunities, flat
\* in the tier's item list (the items of the next kind follow them); with
\* all three categories empty it yields exactly one scalar placeholder.
C8_ResistancesOneItemPerCategory ==
  Rendered =>
    \A t \in Tiers :
       (IsUnlocked(t) /\ ConfiguredKinds(t) \in {<<"resistances">>, <<"resistances", "ac">>}) =>
         LET cats == NonEmptyCategories(Monster)
             n == IF Len(cats) = 0 THEN 1 ELSE Len(cats)
         IN  /\ t \in BundleIds
             /\ Len(BundleInfo(t)) = n + Len(ConfiguredKinds(t)) - 1
             /\ \A i \in 1..Len(cats) :
                  /\ BundleInfo(t)[i].isList
                  /\ BundleInfo(t)[i].label = cats[i].label
                  /\ Len(BundleInfo(t)[i].items) = TraitSize(cats[i].trait)
                  /\ cats[i].trait[1].custom # "" =>
                       BundleInfo(t)[i].items[Len(BundleInfo(t)[i].items)]
                         = cats[i].trait[1].custom
             /\ Len(cats) = 0 =>
                  /\ ~BundleInfo(t)[1].isList
                  /\ BundleInfo(t)[1].label = "MKC.Chat.DamageTraits"
                  /\ BundleInfo(t)[1].value = Str("MKC.Chat.NoDamageTraits")
             /\ Len(ConfiguredKinds(t)) = 2 =>
                  BundleInfo(t)[n + 1].label = "MKC.InfoType.AC"

\* resistances extracted for a monster with two non-empty categories (one
\* of them custom text only) and one empty category
C8_Witness ==
  /\ Rendered
  /\ IsUnlocked("tier1")
  /\ ConfiguredKinds("tier1") = <<"resistances">>
  /\ Monster.dv # <<>> /\ Monster.dv[1].value = <<>> /\ Monster.dv[1].custom # ""
  /\ Monster.dr # <<>> /\ ~NonEmptyTrait(Monster.dr)
  /\ Monster.di # <<>> /\ Len(Monster.di[1].value) > 0
  /\ Len(BundleInfo("tier1")) = 2

\* the first index of s with the strictly best value
FirstBest(s, Better(_, _)) ==
  CHOOSE i \in DOMAIN s :
     /\ \A j \in DOMAIN s : ~Better(s[j].value, s[i].value)
     /\ \A j \in 1..(i - 1) : Better(s[i].value, s[j].value)

Greater(a, b) == a > b
Less(a, b) == a < b

\* C9: for every non-empty ability map highestStat (lowestStat) selects an
\* ability with the maximum (minimum) score, the first in iteration order
\* among those tied for it, and the item shows that ability.
C9_StatExtremeIsFirstAmongTies ==
  (Rendered /\ Monster.abilities # <<>>) =>
    LET abilities == Monster.abilities
        hi == abilities[FirstBest(abilities, Greater)]
        lo == abilities[FirstBest(abilities, Less)]
    IN  /\ _getHighestStat(Monster) # <<>>
        /\ _getHighestStat(Monster)[1].id = hi.id
        /\ _getHighestStat(Monster)[1].value = hi.value
        /\ _getLowestStat(Monster) # <<>>
        /\ _getLowestStat(Monster)[1].id = lo.id
        /\ _getLowestStat(Monster)[1].value = lo.value
        /\ \A t \in Tiers :
             (IsUnlocked(t) /\ ConfiguredKinds(t) = <<"highestStat">>) =>
               /\ t \in BundleIds
               /\ Len(BundleInfo(t)) = 1
               /\ BundleInfo(t)[1].value[1] = W(AbilityLabel(hi.id))
               /\ BundleInfo(t)[1].value[3] = N(hi.value)
        /\ \A t \in Tiers :
             (IsUnlocked(t) /\ ConfiguredKinds(t) = <<"lowestStat">>) =>
               /\ t \in BundleIds
               /\ Len(BundleInfo(t)) = 1
               /\ BundleInfo(t)[1].value[1] = W(AbilityLabel(lo.id))
               /\ BundleInfo(t)[1].value[3] = N(lo.value)

\* both extremes extracted for a monster whose maximum is tied between the
\* second and third ability and whose minimum is the first
C9_Witness ==
  /\ Rendered
  /\ IsUnlocked("tier3") /\ ConfiguredKinds("tier3") = <<"highestStat">>
  /\ IsUnlocked("tier4") /\ ConfiguredKinds("tier4") = <<"lowestStat">>
  /\ Len(Monster.abilities) >= 3
  /\ Monster.abilities[1].value < Monster.abilities[2].value
  /\ Monster.abilities[2].value = Monster.abilities[3].value
  /\ "tier3" \in BundleIds /\ "tier4" \in BundleIds

\* the monster names of the game
Names == {actors[a].name : a \in DOMAIN actors}

\* the pages named n in the journals js, and their texts
PagesNamed(js, n) ==
  UNION {{<<j, k>> : k \in {i \in DOMAIN js[j].pages : js[j].pages[i].name = n}} :
           j \in DOMAIN js}

PageTexts(js, n) == {js[pg[1]].pages[pg[2]].content : pg \in PagesNamed(js, n)}

\* commit c completes in this step
Completes(c) == commits[c].pc # "idle" /\ commits'[c].pc = "idle"

SomeEligibleCharacter ==
  \E a \in DOMAIN actors :
     actors[a].type = "character" /\ (user.isGM \/ actors[a].isOwner)

\* the five preconditions of a click: one target, with an actor, an npc,
\* and an eligible acting character
ClickPreconditions(targets) ==
  /\ Len(targets) = 1
  /\ targets[1] \in DOMAIN actors
  /\ actors[targets[1]].type = "npc"
  /\ SomeEligibleCharacter

\* C11: a click with no target, more than one target, a target without
\* actor, an actor that is not an npc, or no eligible acting character
\* issues exactly one warning and aborts: no dialog is opened, no roll is
\* made, no chat message is posted, no bestiary record changes; a dialog is
\* opened only when all five preconditions hold.
C11_ClickWarnsAndAbortsUnlessAllPreconditions ==
  [][\A targets \in AllTargets :
       onMonsterKnowledgeClick(targets) =>
         IF ClickPreconditions(targets)
         THEN /\ dialog'.pc = "open"
              /\ dialog'.monster = targets[1]
              /\ notice' = notice
         ELSE /\ Len(notice') = 1
              /\ notice'[1].level = "warn"
              /\ dialog' = dialog
              /\ dialog'.pc = "closed"
              /\ chat' = chat
              /\ journals' = journals
              /\ commits' = commits
    ]_vars

\* a player without a character of their own has clicked on the npc: the
\* warning is shown and nothing else has happened
C11_Witness ==
  /\ ~user.isGM
  /\ \E a \in DOMAIN actors : actors[a].type = "character"
  /\ notice = Warn("MKC.Warnings.NoPlayerCharacter")
  /\ dialog.pc = "closed"
  /\ chat = {}
  /\ journals = <<>>

\* C12: addToBestiary with a monster identifier that resolves to no actor
\* reports an error and aborts: no journal is created, no page is created,
\* no existing page is modified, and no write is left pending.
C12_UnknownMonsterAbortsCommit ==
  [][\A c \in CommitIds, m \in chat :
       (addToBestiary(c, m) /\ m.monsterId \notin DOMAIN actors) =>
         /\ Len(notice') = 1
         /\ notice'[1].level = "error"
         /\ journals' = journals
         /\ commits' = commits
    ]_vars

\* the commit of a message of a deleted monster has been refused, the page
\* written for it earlier is still there and nothing is pending
C12_Witness ==
  /\ notice = Error("MKC.Errors.MonsterNotFound")
  /\ NoCommitInFlight
  /\ \E m \in chat :
       /\ m.monsterId \notin DOMAIN actors
       /\ Cardinality(PagesNamed(journals, m.monsterName)) = 1

(***************************************************************************)
(* Overlapping commits.                                                    *)
(***************************************************************************)
\* commit c is about to write to the existing page of its monster, and
\* another commit has written to that page since c read it
WriteOverlapped(c) ==
  /\ commits[c].pc = "updatingPage"
  /\ journals[commits[c].journal].pages[commits[c].page].content # commits[c].existing

\* C13: commits for the same monster whose awaited steps interleave against
\* an existing record are not locked out and the last writer wins: when a
\* commit's write to the monster's single page is applied, whatever was
\* written since the commit started, the page holds exactly the rendered
\* content of that commit's bundle, the monster still has that single
\* page, and the commit ends with the "updated" notification.
C13_LastWriterWins ==
  [][\A c \in CommitIds :
       (/\ Completes(c)
        /\ commits[c].pc = "updatingPage"
        /\ Cardinality(PagesNamed(journals, commits[c].monsterName)) = 1) =>
         /\ PagesNamed(journals', commits[c].monsterName)
              = PagesNamed(journals, commits[c].monsterName)
         /\ PageTexts(journals', commits[c].monsterName)
              = {buildBestiaryContent(commits[c].knowledge[1])}
         /\ notice' = Info("MKC.Journal.Updated", commits[c].monsterName)
         /\ commits'[c] = IdleCommit
    ]_vars

\* two commits for the same monster overlapped on its single page: one has
\* written a bundle, the other, started before that write, is about to
\* write a different one
C13_Witness ==
  \E c \in CommitIds :
     /\ WriteOverlapped(c)
     /\ Cardinality(PagesNamed(journals, commits[c].monsterName)) = 1
     /\ notice = Info("MKC.Journal.Updated", commits[c].monsterName)
     /\ PageTexts(journals, commits[c].monsterName) # {commits[c].content}
     /\ \E m \in chat :
          /\ m.monsterName = commits[c].monsterName
          /\ PageTexts(journals, m.monsterName) = {buildBestiaryContent(m.knowledge)}

(***************************************************************************)
(* Composed kinds.                                                         *)
(***************************************************************************)
\* the attribute group of composed kind number i has no entries at all
GroupEmpty(monster, i) ==
  CASE i = 1 -> monster.movement = <<>> \/ monster.movement[1] = NoMovement
    [] i = 2 -> monster.senses = <<>> \/ monster.senses[1] = NoSenses
    [] i = 3 -> ~NonEmptyTrait(monster.languages)
    [] i = 4 -> monster.typeValue = "" /\ monster.subtype = ""
    [] OTHER -> monster.abilities = <<>>

\* C14: for each of the composed kinds speed, senses, languages,
\* creatureType, allStats and allSaves the value is never the empty string,
\* and when the attribute group has no entries at all the value is the
\* placeholder dash.
C14_ComposedValueIsDashWhenGroupEmpty ==
  (Rendered /\ IsUnlocked("tier1") /\ ConfiguredKinds("tier1") = ComposedKinds) =>
    /\ "tier1" \in BundleIds
    /\ Len(BundleInfo("tier1")) = Len(ComposedKinds)
    /\ \A i \in DOMAIN ComposedKinds :
         /\ BundleInfo("tier1")[i].value # EmptyStr
         /\ GroupEmpty(Monster, i) => BundleInfo("tier1")[i].value = Dash

(***************************************************************************)
(* Kinds that extract to nothing.                                          *)
(***************************************************************************)
\* the labels of the items kind contributes for monster: none for an
\* unrecognized kind and for a stat extreme of an empty ability map
KindLabels(monster, kind) ==
  CASE kind = "resistances" ->
         IF NonEmptyCategories(monster) = <<>> THEN <<"MKC.Chat.DamageTraits">>
         ELSE [i \in DOMAIN NonEmptyCategories(monster) |->
                 NonEmptyCategories(monster)[i].label]
    [] kind = "conditionImmunities" -> <<"MKC.InfoType.ConditionImmunities">>
    [] kind = "highestStat" ->
         IF monster.abilities = <<>> THEN <<>> ELSE <<"MKC.Chat.HighestStat">>
    [] kind = "lowestStat" ->
         IF monster.abilities = <<>> THEN <<>> ELSE <<"MKC.Chat.LowestStat">>
    [] kind = "ac" -> <<"MKC.InfoType.AC">>
    [] kind = "hp" -> <<"MKC.InfoType.HP">>
    [] kind = "speed" -> <<"MKC.InfoType.Speed">>
    [] kind = "senses" -> <<"MKC.InfoType.Senses">>
    [] kind = "languages" -> <<"MKC.InfoType.Languages">>
    [] kind = "creatureType" -> <<"MKC.InfoType.CreatureType">>
    [] kind = "allStats" -> <<"MKC.InfoType.AllStats">>
    [] kind = "allSaves" -> <<"MKC.InfoType.AllSaves">>
    [] OTHER -> <<>>

\* the labels expected for tier t: those of its kinds, in the configured order
ExpectedLabels(t) ==
  Concat([i \in DOMAIN ConfiguredKinds(t) |-> KindLabels(Monster, ConfiguredKinds(t)[i])])

\* C15: an unrecognized kind, or a kind whose extraction yields nothing,
\* contributes no item and does not abort the bundle: every unlocked tier
\* holds the items of all its other configured kinds, in the configured
\* order (and is left out only when none of its kinds yields an item).
C15_NothingExtractedIsSkipped ==
  Rendered =>
    \A t \in Tiers :
       IsUnlocked(t) =>
         IF ExpectedLabels(t) = <<>> THEN t \notin BundleIds
         ELSE /\ t \in BundleIds
              /\ [i \in DOMAIN BundleInfo(t) |-> BundleInfo(t)[i].label] = ExpectedLabels(t)

\* a tier configured with an unrecognized kind, ac, highestStat and hp on a
\* monster without abilities holds the two items ac and hp, and a later
\* unlocked tier still holds its items
C15_Witness ==
  /\ Rendered
  /\ Monster.abilities = <<>>
  /\ IsUnlocked("tier1") /\ ConfiguredKinds("tier1") = MixedKinds
  /\ "tier1" \in BundleIds /\ Len(BundleInfo("tier1")) = 2
  /\ IsUnlocked("tier2") /\ ConfiguredKinds("tier2") = <<"bogus">>
  /\ IsUnlocked("tier3") /\ ConfiguredKinds("tier3") = <<"resistances", "ac">>
  /\ "tier3" \in BundleIds /\ Len(BundleInfo("tier3")) = 2

(***************************************************************************)
(* Configuration changes during a check.                                   *)
(***************************************************************************)
\* the configuration in force: thresholds and information kinds per tier
CurrentConfig ==
  [t \in Tiers |-> [dc |-> dcSetting[t], info |-> SelectSeq(infoSetting[t], NonBlank)]]

\* the form is submitted in this step
Submits == dialog.pc = "open" /\ dialog'.pc \in {"rolling", "rendering"}

\* the check is resolved in this step
Resolves == dialog.pc \in {"open", "rolling"} /\ dialog'.pc = "rendering"

\* C16: a check reads thresholds and information kinds once, at form
\* submission, and uses that single snapshot for the unlock decision and
\* for the gathering: the configuration the check holds is the one in
\* force at submission, whatever it was when the dialog was rendered; it
\* is the same when the roll resolves, whatever was changed meanwhile; and
\* the unlocked tiers and the bundle are those of that snapshot alone.
C16_CheckUsesOneSnapshot ==
  [][ /\ Submits => dialog'.tierConfig = <<CurrentConfig>>
      /\ (dialog.pc = "rolling" /\ dialog'.pc = "rendering") =>
            dialog'.tierConfig = dialog.tierConfig
      /\ Resolves =>
            \A t \in Tiers :
               /\ IsUnlocked(t)' <=>
                    /\ (t = "tier5" => Len(ConfiguredKinds(t)') > 0)
                    /\ dialog'.effectiveTotal # <<>>
                    /\ dialog'.effectiveTotal[1]
                         >= dialog'.tierConfig[1][t].dc + dialog'.dcModifier
               /\ IsUnlocked(t)' =>
                    IF ExpectedLabels(t)' = <<>> THEN t \notin BundleIds'
                    ELSE /\ t \in BundleIds'
                         /\ [i \in DOMAIN BundleInfo(t)' |-> BundleInfo(t)'[i].label]
                              = ExpectedLabels(t)'
    ]_vars

\* a rolled check is resolved with tier 1 unlocked and in the bundle while
\* the threshold and the information kinds of tier 1 in force are no longer
\* those of the check
C16_Witness ==
  /\ Rendered
  /\ dialog.autopass = ""
  /\ IsUnlocked("tier1") /\ "tier1" \in BundleIds
  /\ dialog.tierConfig[1]["tier1"].dc # dcSetting["tier1"]
  /\ dialog.tierConfig[1]["tier1"].info # CurrentConfig["tier1"].info
  /\ dialog.effectiveTotal[1] < dcSetting["tier1"]

(***************************************************************************)
(* Who changes the bestiary.                                               *)
(***************************************************************************)
\* commit c is started in this step
Starts(c) == commits[c].pc = "idle" /\ commits'[c].pc # "idle"

\* C17: performing a knowledge check, through posting the chat message,
\* never creates or changes a bestiary record or starts a commit; a record
\* changes only by a commit triggered from a module chat message by a GM;
\* a user who is not a GM never triggers addToBestiary.
C17_OnlyGMCommitChangesBestiary ==
  [][ /\ (dialog' # dialog \/ chat' # chat) =>
            (journals' = journals /\ commits' = commits)
      /\ journals' # journals =>
            (user.isGM /\ \E c \in CommitIds : Completes(c))
      /\ \A c \in CommitIds :
            Starts(c) =>
              /\ user.isGM
              /\ \E m \in chat : commits'[c].knowledge = <<m.knowledge>>
      /\ ~user.isGM => (journals' = <<>> /\ commits' = commits)
    ]_vars

\* a player has performed checks that revealed knowledge, the messages are
\* posted, and there is no bestiary record and no commit
C17_Witness ==
  /\ ~user.isGM
  /\ Cardinality(chat) = MaxMessages
  /\ \E m \in chat : m.hasKnowledge /\ Len(m.knowledge.tiers) > 0
  /\ journals = <<>>
  /\ NoCommitInFlight

(***************************************************************************)
(* One journal, one page per monster.                                      *)
(***************************************************************************)
\* the journals named as the bestiary
Bestiaries == {j \in DOMAIN journals : journals[j].name = journalName}

\* C18: after any sequence and any interleaving of addToBestiary commits
\* there is at most one bestiary journal and at most one page per monster
\* name.
C18_OneJournalOnePagePerName ==
  /\ Cardinality(Bestiaries) <= 1
  /\ \A n \in Names : Cardinality(PagesNamed(journals, n)) <= 1

(***************************************************************************)
(* Autopass and the difficulty modifier.                                   *)
(***************************************************************************)
\* the tiers an UnlockedTierSet marks as unlocked
UnlockedIn(unlockedTiers) ==
  {unlockedTiers[i].tier : i \in {j \in DOMAIN unlockedTiers : unlockedTiers[j].unlocked}}

\* the unlocked tiers of an autopass at tier T under modifier m with the
\* configuration of the check
AutopassUnlocked(T, m) ==
  LET dcs == EffectiveDCs(dialog.tierConfig[1], m)
  IN  UnlockedIn(_determineUnlockedTiers(dcs[T], dcs))

\* C19: the outcome of an autopass does not depend on the difficulty
\* modifier: for every autopass tier, configured threshold set and modifier
\* of the check, the unlocked tiers are those of the same autopass under
\* any other modifier.
C19_AutopassIndependentOfModifier ==
  (Rendered /\ dialog.autopass # "") =>
    \A m2 \in Modifiers :
       UnlockedIn(dialog.unlockedTiers) = AutopassUnlocked(dialog.autopass, m2)

(***************************************************************************)
(* Records are keyed by display name.                                      *)
(***************************************************************************)
\* C20: bestiary records are keyed by the monster's display name only: a
\* commit for a monster named N creates or replaces only the page named N
\* and leaves every page of another name as it is, and commits for
\* distinct monster identifiers with the same display name act on the same
\* single page, the later one replacing the content of the earlier one.
C20_RecordsKeyedByDisplayName ==
  [][\A c \in CommitIds :
       Completes(c) =>
         LET shown == commits[c].monsterName
         IN  /\ \A j \in DOMAIN journals :
                  \A k \in DOMAIN journals[j].pages :
                     journals[j].pages[k].name # shown =>
                       /\ j \in DOMAIN journals'
                       /\ k \in DOMAIN journals'[j].pages
                       /\ journals'[j].pages[k] = journals[j].pages[k]
             /\ \A n \in Names \ {shown} : PagesNamed(journals', n) = PagesNamed(journals, n)
             /\ PagesNamed(journals, shown) \subseteq PagesNamed(journals', shown)
             /\ Cardinality(PagesNamed(journals', shown)) = 1
             /\ PageTexts(journals', shown) = {commits[c].content}
    ]_vars

\* the single page "Goblin" holds the bundle committed for one actor of
\* that name, and the commit of a different bundle for the other actor of
\* that name is about to replace it
C20_Witness ==
  \E c \in CommitIds, m1, m3 \in chat :
     /\ m1.monsterId # m3.monsterId
     /\ m1.monsterName = m3.monsterName
     /\ commits[c].pc = "updatingPage"
     /\ commits[c].monsterName = m3.monsterName
     /\ commits[c].knowledge = <<m3.knowledge>>
     /\ commits[c].existing = buildBestiaryContent(m1.knowledge)
     /\ commits[c].existing # commits[c].content
     /\ PageTexts(journals, m1.monsterName) = {commits[c].existing}

====
